---- MODULE Spec2Model ----
(***************************************************************************)
(* OpenClapp backend: the Convex tables (agents, clapEvents,               *)
(* xVerificationChallenges), the mutations of convex/clapApi.ts and the    *)
(* HTTP actions that call them.  A mutation is one transaction and so one  *)
(* step here; an HTTP action is one step per query / mutation it runs.     *)
(* Every handler is an operator that gives its outcome in the current      *)
(* state: what it answers and the tables it leaves; the action applies it. *)
(***************************************************************************)
EXTENDS Integers, Sequences, FiniteSets, TLC

VARIABLES
  now,          \* the value Date.now() returns
  agents,       \* table agents: _id -> document
  agentSeq,     \* number of agent ids handed out so far (ids are never reused)
  clapEvents,   \* table clapEvents, in insertion order
  challenges,   \* table xVerificationChallenges: _id -> document
  challengeSeq, \* number of challenge ids handed out so far
  inflight,     \* HTTP actions between two of their awaits: slot -> request
  view          \* what the query that ran last returned

vars == <<now, agents, agentSeq, clapEvents, challenges, challengeSeq, inflight, view>>

----------------------------------------------------------------------------
(* Bounds of the model. *)
MaxTime == 3
MaxAgents == 2
MaxEvents == 3
MaxChallenges == 2
MaxInflight == 2
ChallengeTtl == 1

Times == 1..MaxTime
AgentIds == 1..MaxAgents
ChallengeIds == 1..MaxChallenges
Slots == 1..MaxInflight

----------------------------------------------------------------------------
(* Values. *)
Undefined == <<"undefined">>
NoAgent == 0
Names == {"a"}

Max(a, b) == IF a >= b THEN a ELSE b
Min(a, b) == IF a <= b THEN a ELSE b

(* Strings are sequences of characters. *)
Lower(c) == IF c = "J" THEN "j" ELSE IF c = "P" THEN "p" ELSE c

RECURSIVE TrimStart(_)
TrimStart(s) == IF s # <<>> /\ Head(s) = " " THEN TrimStart(Tail(s)) ELSE s

RECURSIVE TrimEnd(_)
TrimEnd(s) ==
  IF s # <<>> /\ s[Len(s)] = " " THEN TrimEnd(SubSeq(s, 1, Len(s) - 1)) ELSE s

Trim(s) == TrimEnd(TrimStart(s))

StripAt(s) == IF s # <<>> /\ Head(s) = "@" THEN Tail(s) ELSE s

normalizeXHandleCaseKept(raw) == StripAt(Trim(raw))
normalizeXHandle(raw) == LET t == StripAt(Trim(raw)) IN [i \in 1..Len(t) |-> Lower(t[i])]

HandleChars == {"j", "p", "_", "0"}
ValidHandle(h) == Len(h) >= 1 /\ Len(h) <= 15 /\ \A i \in 1..Len(h) : h[i] \in HandleChars

RawHandles ==
  { <<"j">>, <<"@", "J">>, <<" ", "p">>, <<"@", "@", "j">> }

----------------------------------------------------------------------------
(* Responses. *)
ErrAgentNotFound == "Agent not found"
ErrChallengeNotFound == "Challenge not found"
ErrCompleted == "Challenge already completed"
ErrExpired == "Challenge expired"
ErrConflict == "That X handle is already linked to another verified agent"
ErrNoPostMerged == "Challenge not found"
ErrNoPost == "Verification post not found yet"
ErrXApi == "X API error"
ErrWipe == "Must pass confirmWipe: 'YES_DELETE_EVERYTHING' to proceed"
ErrPatch == "Update on nonexistent document"

\* what a handler answers: status 200 and the returned fields, or an error.
\* Status 0 is an error thrown by a mutation to whoever called it.
Reply(status, error, changed) == [status |-> status, error |-> error, changed |-> changed]
Ok(changed) == Reply(200, "", changed)
Thrown(error) == Reply(0, error, FALSE)

\* the outcome of a handler: its answer and the three tables after it
Out(reply, ag, ev, ch) == [reply |-> reply, agents |-> ag, clapEvents |-> ev, challenges |-> ch]
\* the tables now
Db == [agents |-> agents, clapEvents |-> clapEvents, challenges |-> challenges]
FailOn(db, reply) == Out(reply, db.agents, db.clapEvents, db.challenges)
Fail(reply) == FailOn(Db, reply)

Apply(o) ==
  /\ agents' = o.agents
  /\ clapEvents' = o.clapEvents
  /\ challenges' = o.challenges

Idle == [pc |-> "idle"]
NoView == [query |-> "none"]

----------------------------------------------------------------------------
(* convex/clapApi.ts: percentage *)
\* a percentage is the fraction num / den
Frac(n, d) == [num |-> n, den |-> d]

\* Math.max(0, Math.min(100, value)) on a quotient: x / 0 is Infinity, -Infinity
\* or, for 0 / 0, NaN, and NaN passes through Math.min and Math.max
clampPctOff(value) == value
clampPct(value) ==
  LET num == IF value.den < 0 THEN 0 - value.num ELSE value.num
      den == IF value.den < 0 THEN 0 - value.den ELSE value.den
  IN IF den = 0 /\ num = 0 THEN value
     ELSE IF num < 0 THEN Frac(0, 1)
     ELSE IF num > 100 * den THEN Frac(100, 1)
     ELSE Frac(num, den)

ElapsedUnfloored(agent, t) == t - agent.createdAt
Elapsed(agent, t) == Max(1, t - agent.createdAt)

LiveClapMs(agent, t) ==
  IF agent.isClapping THEN Max(0, t - agent.lastStateChangedAt) ELSE 0

computeAgentPct(agent, t) ==
  clampPct(Frac((agent.cumulativeClapMs + LiveClapMs(agent, t)) * 100, Elapsed(agent, t)))

\* the query getAgentById at time t
getAgentByIdOut(agentId) ==
  IF agentId \notin DOMAIN agents
    THEN [query |-> "getAgentById", found |-> FALSE]
    ELSE [ query |-> "getAgentById",
           found |-> TRUE,
           at |-> now,
           id |-> agentId,
           isClapping |-> agents[agentId].isClapping,
           clapPct |-> computeAgentPct(agents[agentId], now),
           createdAt |-> agents[agentId].createdAt,
           lastHeartbeatAt |-> agents[agentId].lastHeartbeatAt ]

getAgentById(agentId) ==
  /\ view' = getAgentByIdOut(agentId)
  /\ UNCHANGED <<now, agents, agentSeq, clapEvents, challenges, challengeSeq, inflight>>

----------------------------------------------------------------------------
(* convex/clapApi.ts: getCurrentStats *)
\* subset.reduce(...): the sum of f over the documents of a set of ids
RECURSIVE Sum(_, _)
Sum(f, S) ==
  IF S = {} THEN 0
  ELSE LET x == CHOOSE y \in S : TRUE IN f[x] + Sum(f, S \ {x})

\* the sum of two quotients, and a quotient divided by n
FracAdd(a, b) == Frac(a.num * b.den + b.num * a.den, a.den * b.den)
FracDiv(a, n) == Frac(a.num, a.den * n)

RECURSIVE FracSum(_, _)
FracSum(f, S) ==
  IF S = {} THEN Frac(0, 1)
  ELSE LET x == CHOOSE y \in S : TRUE IN FracAdd(f[x], FracSum(f, S \ {x}))

groupPctMean(subset, t) ==
  IF subset = {} THEN Frac(0, 1)
  ELSE FracDiv(FracSum([a \in subset |-> computeAgentPct(agents[a], t)], subset),
               Cardinality(subset))

\* groupPct of a cohort, given as the set of its ids, at time t
groupPct(subset, t) ==
  IF subset = {} THEN Frac(0, 1)
  ELSE LET elapsed == Sum([a \in subset |-> Elapsed(agents[a], t)], subset)
           clap == Sum([a \in subset |-> agents[a].cumulativeClapMs + LiveClapMs(agents[a], t)], subset)
       IN clampPct(Frac(clap * 100, Max(1, elapsed)))

\* `n ? (k / n) * 100 : 0`
CurrentPct(k, n) == IF n # 0 THEN Frac(k * 100, n) ELSE Frac(0, 1)

getCurrentStatsOut ==
  LET all == DOMAIN agents
      verified == {a \in all : agents[a].xVerified}
      unverified == {a \in all : ~agents[a].xVerified}
      clapping(S) == Cardinality({a \in S : agents[a].isClapping})
  IN [ query |-> "getCurrentStats",
       at |-> now,
       totalAgents |-> Cardinality(all),
       totalAgentsVerified |-> Cardinality(verified),
       totalAgentsUnverified |-> Cardinality(unverified),
       clappingNow |-> clapping(all),
       clappingNowVerified |-> clapping(verified),
       clappingNowUnverified |-> clapping(unverified),
       currentClappingPct |-> CurrentPct(clapping(all), Cardinality(all)),
       currentClappingPctVerified |-> CurrentPct(clapping(verified), Cardinality(verified)),
       currentClappingPctUnverified |-> CurrentPct(clapping(unverified), Cardinality(unverified)),
       lifetimeClappingPctOverall |-> groupPct(all, now),
       lifetimeClappingPctVerified |-> groupPct(verified, now),
       lifetimeClappingPctUnverified |-> groupPct(unverified, now) ]

getCurrentStats ==
  /\ view' = getCurrentStatsOut
  /\ UNCHANGED <<now, agents, agentSeq, clapEvents, challenges, challengeSeq, inflight>>

----------------------------------------------------------------------------
(* convex/clapApi.ts: getClapRateHistory.  One unit of time is one hour.     *)
Ranges == {"hour", "day", "week", "month", "all"}

\* windows[range], in hours
Window(range) ==
  CASE range = "hour" -> 1
    [] range = "day" -> 24
    [] range = "week" -> 7 * 24
    [] range = "month" -> 30 * 24
    [] range = "all" -> 3650 * 24

MaxPointsOf(range) == IF range = "hour" THEN 120 ELSE IF range = "day" THEN 200 ELSE 260

HistoryTake == 5000

\* .withIndex("by_created_at").order("desc"): by createdAt, the newest first;
\* of two events with the same createdAt the one inserted later comes first.
\* e was inserted after every event of `sorted`, so it goes behind the events
\* with a later createdAt and before all others.
InsertDesc(sorted, e) ==
  LET p == Cardinality({i \in 1..Len(sorted) : sorted[i].createdAt > e.createdAt})
  IN SubSeq(sorted, 1, p) \o <<e>> \o SubSeq(sorted, p + 1, Len(sorted))

\* the events of the log inserted one after the other, in the order of the
\* log, until `sorted` holds the first n of them; done in two halves
RECURSIVE InsertUpTo(_, _, _)
InsertUpTo(log, n, sorted) ==
  IF Len(sorted) >= n THEN sorted
  ELSE IF Len(sorted) + 1 = n THEN InsertDesc(sorted, log[n])
  ELSE InsertUpTo(log, n, InsertUpTo(log, (Len(sorted) + n) \div 2, sorted))

Reverse(seq) == [i \in 1..Len(seq) |-> seq[Len(seq) + 1 - i]]

\* a log whose createdAt never decreases is in that order read back to front:
\* every event is inserted before all events inserted earlier
InOrder(log) == \A i \in 1..(Len(log) - 1) : log[i].createdAt <= log[i + 1].createdAt

ByCreatedAtDesc(log) ==
  IF InOrder(log) THEN Reverse(log) ELSE InsertUpTo(log, Len(log), <<>>)

Take(seq, n) == SubSeq(seq, 1, Min(n, Len(seq)))

HistoryPoint(ts, running, totalAgents) ==
  [ts |-> ts, clappingNow |-> running, pct |-> CurrentPct(running, totalAgents)]

\* lines 275-276: the running count before event e, from the count after it
UndoUnclamped(running, e, totalAgents) ==
  running + (IF e.type = "started" THEN -1 ELSE 1)
UndoForward(running, e, totalAgents) ==
  Max(0, Min(totalAgents, running + (IF e.type = "started" THEN 1 ELSE -1)))
Undo(running, e, totalAgents) ==
  Max(0, Min(totalAgents, running + (IF e.type = "started" THEN -1 ELSE 1)))

\* one turn of the loop of lines 274-282 for event e: the running count and
\* the points pushed so far
LoopStep(acc, e, totalAgents) ==
  [ running |-> Undo(acc.running, e, totalAgents),
    points |-> Append(acc.points,
                      HistoryPoint(e.createdAt, Undo(acc.running, e, totalAgents), totalAgents)) ]

\* the turns of the loop, in the order of `filtered`, until the first n events
\* have their points (acc.points holds the anchor and one point per turn);
\* done in two halves
RECURSIVE LoopUpTo(_, _, _, _)
LoopUpTo(filtered, n, acc, totalAgents) ==
  IF Len(acc.points) - 1 >= n THEN acc
  ELSE IF Len(acc.points) = n THEN LoopStep(acc, filtered[n], totalAgents)
  ELSE LoopUpTo(filtered, n,
                LoopUpTo(filtered, (Len(acc.points) - 1 + n) \div 2, acc, totalAgents),
                totalAgents)

\* reversePoints: the anchor, then one point per event, newest first
ReversePoints(filtered, t, running, totalAgents) ==
  LoopUpTo(filtered, Len(filtered),
           [running |-> running, points |-> <<HistoryPoint(t, running, totalAgents)>>],
           totalAgents).points

\* Math.ceil(a / b) for a >= 0 and b > 0
Ceil(a, b) == (a + b - 1) \div b

Stride(len, maxPoints) == Max(1, Ceil(len, maxPoints))

\* the indices 0 .. len - 1 in their order
Indices(len) == [i \in 1..len |-> i - 1]

\* points.filter((_, i) => i % stride === 0 || i === points.length - 1)
Pick(points, idx) == [k \in 1..Len(idx) |-> points[idx[k] + 1]]

SampledNoLast(points, stride) ==
  Pick(points, SelectSeq(Indices(Len(points)), LAMBDA i : i % stride = 0))

Sampled(points, stride) ==
  Pick(points, SelectSeq(Indices(Len(points)),
                         LAMBDA i : i % stride = 0 \/ i = Len(points) - 1))

\* lines 285-287
Downsample(points, maxPoints) == Sampled(points, Stride(Len(points), maxPoints))

\* the reconstructed series in chronological order, before sampling
HistoryPoints(range) ==
  LET totalAgents == Cardinality(DOMAIN agents)
      currentClappingNow == Cardinality({a \in DOMAIN agents : agents[a].isClapping})
      fromTs == now - Window(range)
      events == Take(ByCreatedAtDesc(clapEvents), HistoryTake)
      filtered == SelectSeq(events, LAMBDA e : e.createdAt >= fromTs)
  IN Reverse(ReversePoints(filtered, now, currentClappingNow, totalAgents))

getClapRateHistoryOut(range) ==
  [ query |-> "getClapRateHistory",
    at |-> now,
    range |-> range,
    totalAgents |-> Cardinality(DOMAIN agents),
    points |-> Downsample(HistoryPoints(range), MaxPointsOf(range)) ]

getClapRateHistory(range) ==
  /\ view' = getClapRateHistoryOut(range)
  /\ UNCHANGED <<now, agents, agentSeq, clapEvents, challenges, challengeSeq, inflight>>

----------------------------------------------------------------------------
(* convex/clapApi.ts: listAgents.  A number argument is a number, NaN (what  *)
(* Number() of the route gives for a string that is no number) or absent.    *)
NaN == [nan |-> TRUE, val |-> 0]
Num(v) == [nan |-> FALSE, val |-> v]
Absent == [absent |-> TRUE]

\* `x ?? d`
OrElse(x, d) == IF x = Absent THEN d ELSE x

\* Math.max and Math.min return NaN when an argument is NaN
MathMax(a, b) == IF a.nan \/ b.nan THEN NaN ELSE Num(Max(a.val, b.val))
MathMin(a, b) == IF a.nan \/ b.nan THEN NaN ELSE Num(Min(a.val, b.val))

\* (page - 1) * pageSize and start + pageSize
StartOf(page, pageSize) ==
  IF page.nan \/ pageSize.nan THEN NaN ELSE Num((page.val - 1) * pageSize.val)
EndOf(start, pageSize) ==
  IF start.nan \/ pageSize.nan THEN NaN ELSE Num(start.val + pageSize.val)

\* Array.prototype.slice: NaN counts as 0, a negative index counts from the
\* end, and both indices are cut to 0 .. length
SliceIndex(x, len) ==
  IF x.nan THEN 0 ELSE IF x.val < 0 THEN Max(len + x.val, 0) ELSE Min(x.val, len)
Slice(seq, start, end) ==
  SubSeq(seq, SliceIndex(start, Len(seq)) + 1, SliceIndex(end, Len(seq)))

\* Math.max(1, Math.ceil(total / pageSize)), for pageSize NaN or >= 1
TotalPages(total, pageSize) ==
  IF pageSize.nan THEN NaN ELSE MathMax(Num(1), Num(Ceil(total, pageSize.val)))

SortInputs == {"undefined", "newest", "oldest", "highest_clap", "lowest_clap"}

\* ctx.db.query("agents").collect(): the documents in the order of their ids
Collect(tbl) ==
  [k \in 1..Cardinality(DOMAIN tbl) |->
     CHOOSE a \in DOMAIN tbl : Cardinality({b \in DOMAIN tbl : b < a}) = k - 1]

\* lines 196-204
Normalized(a, t) ==
  [ id |-> a,
    name |-> agents[a].name,
    xHandle |-> agents[a].xHandle,
    xVerified |-> agents[a].xVerified,
    isClapping |-> agents[a].isClapping,
    createdAt |-> agents[a].createdAt,
    clapPct |-> computeAgentPct(agents[a], t) ]

\* the sign of x - y for two percentages
FracCompare(x, y) ==
  IF x.num * y.den < y.num * x.den THEN -1
  ELSE IF x.num * y.den > y.num * x.den THEN 1 ELSE 0

\* the comparator of lines 206-211: negative when a goes before b
Compare(sort, a, b) ==
  IF sort = "oldest" THEN a.createdAt - b.createdAt
  ELSE IF sort = "highest_clap" THEN FracCompare(b.clapPct, a.clapPct)
  ELSE IF sort = "lowest_clap" THEN FracCompare(a.clapPct, b.clapPct)
  ELSE b.createdAt - a.createdAt

\* Array.prototype.sort is stable: of two items the comparator holds equal,
\* the one that was first stays first
SortedBy(seq, sort) ==
  LET before(j, i) == \/ Compare(sort, seq[j], seq[i]) < 0
                      \/ Compare(sort, seq[j], seq[i]) = 0 /\ j < i
  IN [k \in 1..Len(seq) |->
        seq[CHOOSE i \in 1..Len(seq) : Cardinality({j \in 1..Len(seq) : before(j, i)}) = k - 1]]

listAgentsOut(sortArg, pageArg, pageSizeArg, verifiedOnly) ==
  LET page == MathMax(Num(1), OrElse(pageArg, Num(1)))
      pageSize == MathMin(Num(100), MathMax(Num(1), OrElse(pageSizeArg, Num(24))))
      sort == IF sortArg = "undefined" THEN "newest" ELSE sortArg
      kept == SelectSeq(Collect(agents), LAMBDA a : IF verifiedOnly THEN agents[a].xVerified ELSE TRUE)
      normalized == SortedBy([k \in 1..Len(kept) |-> Normalized(kept[k], now)], sort)
      start == StartOf(page, pageSize)
  IN [ query |-> "listAgents",
       at |-> now,
       sort |-> sort,
       verifiedOnly |-> verifiedOnly,
       page |-> page,
       pageSize |-> pageSize,
       total |-> Len(normalized),
       totalPages |-> TotalPages(Len(normalized), pageSize),
       items |-> Slice(normalized, start, EndOf(start, pageSize)) ]

listAgents(sortArg, pageArg, pageSizeArg, verifiedOnly) ==
  /\ view' = listAgentsOut(sortArg, pageArg, pageSizeArg, verifiedOnly)
  /\ UNCHANGED <<now, agents, agentSeq, clapEvents, challenges, challengeSeq, inflight>>

----------------------------------------------------------------------------
(* convex/clapApi.ts: registerAgent *)
NewAgent(name, xHandle, t) ==
  [ name |-> name,
    xHandle |-> xHandle,
    xVerified |-> FALSE,
    isClapping |-> FALSE,
    cumulativeClapMs |-> 0,
    lastStateChangedAt |-> t,
    lastHeartbeatAt |-> t,
    createdAt |-> t,
    updatedAt |-> t ]

Insert(table, id, doc) == [k \in DOMAIN table \cup {id} |-> IF k = id THEN doc ELSE table[k]]

\* raw is the optional xHandle argument; the empty string counts as absent
registerAgentOut(name, raw) ==
  Out(Ok(FALSE),
      Insert(agents, agentSeq + 1,
             NewAgent(name, IF raw # <<>> THEN normalizeXHandle(raw) ELSE Undefined, now)),
      clapEvents, challenges)

registerAgent(name, raw) ==
  /\ agentSeq < MaxAgents
  /\ agentSeq' = agentSeq + 1
  /\ Apply(registerAgentOut(name, raw))
  /\ UNCHANGED <<now, challengeSeq, inflight, view>>

----------------------------------------------------------------------------
(* convex/clapApi.ts: setClappingState, heartbeat *)
FoldedOnEveryStop(agent, clapping, t) ==
  IF ~clapping
    THEN agent.cumulativeClapMs + Max(0, t - agent.lastStateChangedAt)
    ELSE agent.cumulativeClapMs

FoldedUnfloored(agent, clapping, t) ==
  IF agent.isClapping /\ ~clapping
    THEN agent.cumulativeClapMs + (t - agent.lastStateChangedAt)
    ELSE agent.cumulativeClapMs

Folded(agent, clapping, t) ==
  IF agent.isClapping /\ ~clapping
    THEN agent.cumulativeClapMs + Max(0, t - agent.lastStateChangedAt)
    ELSE agent.cumulativeClapMs

ChangedOnEveryWrite(agent, clapping) == TRUE
Changed(agent, clapping) == agent.isClapping # clapping

ClapEvent(agentId, agent, clapping, t) ==
  [ agentId |-> agentId,
    agentName |-> agent.name,
    type |-> IF clapping THEN "started" ELSE "stopped",
    createdAt |-> t ]

\* the patch of lines 62-68 and of lines 100-106
ClapPatchStamping(agent, clapping, t) ==
  [agent EXCEPT !.isClapping = clapping,
                !.cumulativeClapMs = Folded(agent, clapping, t),
                !.lastStateChangedAt = t,
                !.lastHeartbeatAt = t,
                !.updatedAt = t]

ClapPatch(agent, clapping, t) ==
  [agent EXCEPT !.isClapping = clapping,
                !.cumulativeClapMs = Folded(agent, clapping, t),
                !.lastStateChangedAt = IF Changed(agent, clapping) THEN t ELSE agent.lastStateChangedAt,
                !.lastHeartbeatAt = t,
                !.updatedAt = t]

\* the patch of line 119
BeatPatch(agent, t) == [agent EXCEPT !.lastHeartbeatAt = t, !.updatedAt = t]

\* ctx.db.insert("clapEvents", ...): the new document is the last of the table
InsertEventFirst(log, e) == <<e>> \o log
InsertEvent(log, e) == Append(log, e)

\* the handler of setClappingState run on the tables db at time t
setClappingStateOn(db, t, agentId, clapping) ==
  IF agentId \notin DOMAIN db.agents
    THEN FailOn(db, Thrown(ErrAgentNotFound))
    ELSE LET agent == db.agents[agentId]
             changed == Changed(agent, clapping)
         IN Out(Ok(changed),
                [db.agents EXCEPT ![agentId] = ClapPatch(agent, clapping, t)],
                IF changed
                  THEN InsertEvent(db.clapEvents, ClapEvent(agentId, agent, clapping, t))
                  ELSE db.clapEvents,
                db.challenges)

setClappingStateOut(agentId, clapping) == setClappingStateOn(Db, now, agentId, clapping)

\* an optional boolean of a request body or of a mutation's arguments
ClapInputs == {"true", "false", "undefined"}
IsBoolean(c) == c \in {"true", "false"}
BoolOf(c) == c = "true"

\* lines 93-117 are the body of setClappingState once more
heartbeatOn(db, t, agentId, clapping) ==
  IF agentId \notin DOMAIN db.agents
    THEN FailOn(db, Thrown(ErrAgentNotFound))
    ELSE IF IsBoolean(clapping)
      THEN setClappingStateOn(db, t, agentId, BoolOf(clapping))
      ELSE Out(Ok(FALSE),
               [db.agents EXCEPT ![agentId] = BeatPatch(db.agents[agentId], t)],
               db.clapEvents, db.challenges)

heartbeatOut(agentId, clapping) == heartbeatOn(Db, now, agentId, clapping)

\* the event log of the model holds MaxEvents events
Room(o) == Len(o.clapEvents) <= MaxEvents

setClappingState(agentId, clapping) ==
  /\ Room(setClappingStateOut(agentId, clapping))
  /\ Apply(setClappingStateOut(agentId, clapping))
  /\ UNCHANGED <<now, agentSeq, challengeSeq, inflight, view>>

heartbeat(agentId, clapping) ==
  /\ Room(heartbeatOut(agentId, clapping))
  /\ Apply(heartbeatOut(agentId, clapping))
  /\ UNCHANGED <<now, agentSeq, challengeSeq, inflight, view>>

----------------------------------------------------------------------------
(* convex/clapApi.ts: the X verification mutations *)
NumCodes == 1
Codes == 1..NumCodes
\* `I'm claiming my agent ${name} on @OpenClapp Verification CLAPP-${code}`
ChallengeText(name, code) == [name |-> name, code |-> code]
Texts == {ChallengeText(n, c) : n \in Names, c \in Codes}

\* `https://x.com/${handle}/status/${id}`, or no URL
Url(handle, id) == [handle |-> handle, status |-> id]
NoUrl == Url(<<>>, 0)

\* .withIndex("by_x_verified").filter(...).first(): the first verified agent
\* with that handle, in the order of the ids
OwnersOf(tbl, handle) == {a \in DOMAIN tbl : tbl[a].xVerified /\ tbl[a].xHandle = handle}
ExistingOwnerNever(handle) == NoAgent
ExistingOwner(handle) ==
  IF OwnersOf(agents, handle) = {} THEN NoAgent
  ELSE CHOOSE a \in OwnersOf(agents, handle) : \A b \in OwnersOf(agents, handle) : a <= b

NewChallenge(agentId, handle, text, expiresAt, t) ==
  [ agentId |-> agentId,
    xHandle |-> handle,
    challengeText |-> text,
    createdAt |-> t,
    expiresAt |-> expiresAt,
    completedAt |-> 0,
    matchedPostUrl |-> NoUrl ]

createXVerificationChallengeOut(agentId, raw, text, expiresAt) ==
  IF agentId \notin DOMAIN agents
    THEN Fail(Thrown(ErrAgentNotFound))
  ELSE IF ExistingOwner(normalizeXHandle(raw)) \notin {NoAgent, agentId}
    THEN Fail(Thrown(ErrConflict))
  ELSE Out(Ok(FALSE),
           [agents EXCEPT ![agentId].xHandle = normalizeXHandle(raw),
                          ![agentId].updatedAt = now],
           clapEvents,
           Insert(challenges, challengeSeq + 1,
                  NewChallenge(agentId, normalizeXHandle(raw), text, expiresAt, now)))

createXVerificationChallenge(agentId, raw, text, expiresAt) ==
  /\ challengeSeq < MaxChallenges
  /\ Apply(createXVerificationChallengeOut(agentId, raw, text, expiresAt))
  /\ challengeSeq' = IF createXVerificationChallengeOut(agentId, raw, text, expiresAt).reply.status = 200
                       THEN challengeSeq + 1
                       ELSE challengeSeq
  /\ UNCHANGED <<now, agentSeq, inflight, view>>

ExpiredStrictly(challenge, t) == challenge.expiresAt <= t
Expired(challenge, t) == challenge.expiresAt < t

CompletedNever(challenge) == FALSE
Completed(challenge) == challenge.completedAt # 0

\* the patch of lines 367-371
VerifiedPatchKeepingHandle(agent, challenge, t) ==
  [agent EXCEPT !.xVerified = TRUE, !.updatedAt = t]
VerifiedPatch(agent, challenge, t) ==
  [agent EXCEPT !.xHandle = challenge.xHandle, !.xVerified = TRUE, !.updatedAt = t]

completeXVerificationChallengeOut(challengeId, matchedPostUrl) ==
  IF challengeId \notin DOMAIN challenges
    THEN Fail(Thrown(ErrChallengeNotFound))
  ELSE IF Completed(challenges[challengeId])
    THEN Fail(Thrown(ErrCompleted))
  ELSE IF Expired(challenges[challengeId], now)
    THEN Fail(Thrown(ErrExpired))
  ELSE IF ExistingOwner(challenges[challengeId].xHandle) \notin {NoAgent, challenges[challengeId].agentId}
    THEN Fail(Thrown(ErrConflict))
  ELSE IF challenges[challengeId].agentId \notin DOMAIN agents
    THEN Fail(Thrown(ErrPatch))
  ELSE Out(Ok(FALSE),
           [agents EXCEPT ![challenges[challengeId].agentId] =
                            VerifiedPatch(agents[challenges[challengeId].agentId], challenges[challengeId], now)],
           clapEvents,
           [challenges EXCEPT ![challengeId].completedAt = now,
                              ![challengeId].matchedPostUrl = matchedPostUrl])

completeXVerificationChallenge(challengeId, matchedPostUrl) ==
  /\ Apply(completeXVerificationChallengeOut(challengeId, matchedPostUrl))
  /\ UNCHANGED <<now, agentSeq, challengeSeq, inflight, view>>

----------------------------------------------------------------------------
(* convex/http: the clap and heartbeat routes *)
\* resolveAgentId is called by the routes with the agentId of the body
resolveAgentId(agentId) == IF agentId \in DOMAIN agents THEN agentId ELSE NoAgent

FreeSlot(s) == inflight[s].pc = "idle"
Pending == [pc |-> "pending"]

\* an error thrown inside a route that has no try/catch
Uncaught(reply) == IF reply.status = 0 THEN Reply(500, reply.error, FALSE) ELSE reply
\* an error thrown inside the try block of a route
Caught(reply) == IF reply.status = 0 THEN Reply(400, reply.error, FALSE) ELSE reply

\* POST /api/agents/clap up to its mutation: the answer, or Pending
ClapRouteReply(agentId, clapping) ==
  IF agentId = NoAgent \/ ~IsBoolean(clapping)
    THEN Reply(400, "agentId and clapping are required", FALSE)
  ELSE IF resolveAgentId(agentId) = NoAgent
    THEN Reply(404, ErrAgentNotFound, FALSE)
  ELSE Pending

ClapRoute(s, agentId, clapping) ==
  /\ FreeSlot(s)
  /\ inflight' = IF ClapRouteReply(agentId, clapping) = Pending
                   THEN [inflight EXCEPT ![s] = [pc |-> "clap",
                                                 agentId |-> resolveAgentId(agentId),
                                                 clapping |-> clapping]]
                   ELSE inflight
  /\ UNCHANGED <<now, agents, agentSeq, clapEvents, challenges, challengeSeq, view>>

ClapRouteMutationReply(s) ==
  Uncaught(setClappingStateOut(inflight[s].agentId, BoolOf(inflight[s].clapping)).reply)

ClapRouteMutation(s) ==
  /\ inflight[s].pc = "clap"
  /\ Room(setClappingStateOut(inflight[s].agentId, BoolOf(inflight[s].clapping)))
  /\ Apply(setClappingStateOut(inflight[s].agentId, BoolOf(inflight[s].clapping)))
  /\ inflight' = [inflight EXCEPT ![s] = Idle]
  /\ UNCHANGED <<now, agentSeq, challengeSeq, view>>

\* POST /api/agents/heartbeat up to its mutation: the answer, or Pending
HeartbeatRouteReply(agentId, clapping) ==
  IF agentId = NoAgent
    THEN Reply(400, "agentId is required", FALSE)
  ELSE IF resolveAgentId(agentId) = NoAgent
    THEN Reply(404, ErrAgentNotFound, FALSE)
  ELSE Pending

HeartbeatRoute(s, agentId, clapping) ==
  /\ FreeSlot(s)
  /\ inflight' = IF HeartbeatRouteReply(agentId, clapping) = Pending
                   THEN [inflight EXCEPT ![s] = [pc |-> "heartbeat",
                                                 agentId |-> resolveAgentId(agentId),
                                                 clapping |-> clapping]]
                   ELSE inflight
  /\ UNCHANGED <<now, agents, agentSeq, clapEvents, challenges, challengeSeq, view>>

HeartbeatRouteMutationReply(s) ==
  Uncaught(heartbeatOut(inflight[s].agentId, inflight[s].clapping).reply)

HeartbeatRouteMutation(s) ==
  /\ inflight[s].pc = "heartbeat"
  /\ Room(heartbeatOut(inflight[s].agentId, inflight[s].clapping))
  /\ Apply(heartbeatOut(inflight[s].agentId, inflight[s].clapping))
  /\ inflight' = [inflight EXCEPT ![s] = Idle]
  /\ UNCHANGED <<now, agentSeq, challengeSeq, view>>

----------------------------------------------------------------------------
(* convex/http: the verification routes *)
(* A route is in flight between its reads and its mutation.  Its reads are    *)
(* one step: the queries before the mutation give the same answers in any    *)
(* order with the other transactions (agents and challenges are inserted and *)
(* deleted, never changed in what the route reads), and the lookup at X      *)
(* reads no table.                                                           *)

\* POST /api/verifications/x/start up to its mutation: the answer, or Pending.
\* raw is the xHandle of the body, the empty string when there is none.
StartRouteReply(agentId, raw) ==
  IF agentId = NoAgent \/ raw = <<>>
    THEN Reply(400, "agentId and xHandle are required", FALSE)
  ELSE IF resolveAgentId(agentId) = NoAgent
    THEN Reply(404, ErrAgentNotFound, FALSE)
  ELSE IF ~ValidHandle(normalizeXHandle(raw))
    THEN Reply(400, "Invalid X handle format", FALSE)
  ELSE Pending

\* what the route passes to createXVerificationChallenge
StartRequest(agentId, raw, code) ==
  [ pc |-> "create",
    agentId |-> resolveAgentId(agentId),
    xHandle |-> normalizeXHandle(raw),
    expiresAt |-> now + ChallengeTtl,
    challengeText |-> ChallengeText(agents[agentId].name, code) ]

StartRoute(s, agentId, raw, code) ==
  /\ FreeSlot(s)
  /\ inflight' = IF StartRouteReply(agentId, raw) = Pending
                   THEN [inflight EXCEPT ![s] = StartRequest(agentId, raw, code)]
                   ELSE inflight
  /\ UNCHANGED <<now, agents, agentSeq, clapEvents, challenges, challengeSeq, view>>

StartRouteMutationOut(req) ==
  createXVerificationChallengeOut(req.agentId, req.xHandle, req.challengeText, req.expiresAt)

StartRouteMutationReply(req) == Caught(StartRouteMutationOut(req).reply)

StartRouteMutation(s) ==
  /\ inflight[s].pc = "create"
  /\ challengeSeq < MaxChallenges
  /\ Apply(StartRouteMutationOut(inflight[s]))
  /\ challengeSeq' = IF StartRouteMutationOut(inflight[s]).reply.status = 200
                       THEN challengeSeq + 1
                       ELSE challengeSeq
  /\ inflight' = [inflight EXCEPT ![s] = Idle]
  /\ UNCHANGED <<now, agentSeq, view>>

\* fetchRecentXPosts and the search for the challenge text: the X API fails,
\* or no recent post of the handle contains the text, or the post `post` does
FetchResults == {"error", "none", "match"}
PostIds == {7}

\* POST /api/verifications/x/check up to its mutation: the answer, or
\* Pending; challengeId 0 is a body without challengeId
CheckRouteReply(challengeId, result) ==
  IF challengeId = 0
    THEN Reply(400, "challengeId is required", FALSE)
  ELSE IF challengeId \notin DOMAIN challenges
    THEN Reply(404, ErrChallengeNotFound, FALSE)
  ELSE IF Completed(challenges[challengeId])
    THEN Reply(400, ErrCompleted, FALSE)
  ELSE IF Expired(challenges[challengeId], now)
    THEN Reply(400, ErrExpired, FALSE)
  ELSE IF result = "error"
    THEN Reply(400, ErrXApi, FALSE)
  ELSE IF result = "none"
    THEN Reply(404, ErrNoPost, FALSE)
  ELSE Pending

\* what the route passes to completeXVerificationChallenge
CheckRequest(challengeId, post) ==
  [ pc |-> "complete",
    challengeId |-> challengeId,
    matchedPostUrl |-> Url(challenges[challengeId].xHandle, post) ]

CheckRoute(s, challengeId, result, post) ==
  /\ FreeSlot(s)
  /\ inflight' = IF CheckRouteReply(challengeId, result) = Pending
                   THEN [inflight EXCEPT ![s] = CheckRequest(challengeId, post)]
                   ELSE inflight
  /\ UNCHANGED <<now, agents, agentSeq, clapEvents, challenges, challengeSeq, view>>

CheckRouteMutationOut(req) ==
  completeXVerificationChallengeOut(req.challengeId, req.matchedPostUrl)

CheckRouteMutationReply(req) == Caught(CheckRouteMutationOut(req).reply)

CheckRouteMutation(s) ==
  /\ inflight[s].pc = "complete"
  /\ Apply(CheckRouteMutationOut(inflight[s]))
  /\ inflight' = [inflight EXCEPT ![s] = Idle]
  /\ UNCHANGED <<now, agentSeq, challengeSeq, view>>

----------------------------------------------------------------------------
(* convex/clapApi.ts: the bulk deletes *)
Restrict(table, keep) == [k \in DOMAIN table \cap keep |-> table[k]]

RECURSIVE EventsOf(_, _)
EventsOf(seq, keep) ==
  IF seq = <<>> THEN <<>>
  ELSE IF Head(seq).agentId \in keep
    THEN <<Head(seq)>> \o EventsOf(Tail(seq), keep)
    ELSE EventsOf(Tail(seq), keep)

\* agents.sort((a, b) => b.createdAt - a.createdAt) is stable: ties stay in
\* the table's order, the order of the ids
Before(a, b) ==
  \/ agents[a].createdAt > agents[b].createdAt
  \/ agents[a].createdAt = agents[b].createdAt /\ a < b

KeepIds(k) == {a \in DOMAIN agents : Cardinality({b \in DOMAIN agents : Before(b, a)}) < k}

DeleteExceptKeepingChallenges(keep) ==
  Out(Ok(FALSE), Restrict(agents, keep), EventsOf(clapEvents, keep), challenges)

DeleteExcept(keep) ==
  Out(Ok(FALSE),
      Restrict(agents, keep),
      EventsOf(clapEvents, keep),
      Restrict(challenges, {c \in DOMAIN challenges : challenges[c].agentId \in keep}))

deleteAllButNAgentsOut(keep) == DeleteExcept(KeepIds(Max(0, keep)))

deleteAllButNAgents(keep) ==
  /\ Apply(deleteAllButNAgentsOut(keep))
  /\ UNCHANGED <<now, agentSeq, challengeSeq, inflight, view>>

ConfirmWipe == "YES_DELETE_EVERYTHING"
ConfirmInputs == {ConfirmWipe, "yes", ""}

deleteAllAgentsAndDataOut(confirmWipe) ==
  IF confirmWipe # ConfirmWipe THEN Fail(Thrown(ErrWipe)) ELSE DeleteExcept({})

deleteAllAgentsAndData(confirmWipe) ==
  /\ Apply(deleteAllAgentsAndDataOut(confirmWipe))
  /\ UNCHANGED <<now, agentSeq, challengeSeq, inflight, view>>

----------------------------------------------------------------------------
(* Date.now() *)
Tick == /\ now < MaxTime
        /\ now' = now + 1
        /\ UNCHANGED <<agents, agentSeq, clapEvents, challenges, challengeSeq, inflight, view>>

\* the wall clock is not monotonic: it can be set back
ClockBack == /\ \E t \in Times : t < now /\ now' = t
             /\ UNCHANGED <<agents, agentSeq, clapEvents, challenges, challengeSeq, inflight, view>>

----------------------------------------------------------------------------
Init ==
  /\ now = 1
  /\ agents = <<>>
  /\ agentSeq = 0
  /\ clapEvents = <<>>
  /\ challenges = <<>>
  /\ challengeSeq = 0
  /\ inflight = [s \in Slots |-> Idle]
  /\ view = NoView

(* The clap side of the backend: registration, the clap and heartbeat        *)
(* mutations, the bulk deletes, and a wall clock.                            *)
NextClap ==
  \/ \E n \in Names : registerAgent(n, <<>>)
  \/ \E a \in AgentIds, c \in BOOLEAN : setClappingState(a, c)
  \/ \E a \in AgentIds, c \in ClapInputs : heartbeat(a, c)
  \/ \E k \in -1..MaxAgents : deleteAllButNAgents(k)
  \/ \E c \in ConfirmInputs : deleteAllAgentsAndData(c)
  \/ Tick
  \/ ClockBack

SpecClap == Init /\ [][NextClap]_vars

(* The verification side: registration with a handle, the start and check   *)
(* routes, the two mutations called directly, the bulk deletes, a clock.     *)
\* a direct caller passes the expiry the start route would pass
ExpiryInputs == {now + ChallengeTtl}

NextVerify ==
  \/ \E n \in Names, raw \in {<<>>, <<"@", "J">>} : registerAgent(n, raw)
  \/ \E a \in AgentIds, raw \in RawHandles, t \in Texts, e \in ExpiryInputs : createXVerificationChallenge(a, raw, t, e)
  \/ \E c \in ChallengeIds : completeXVerificationChallenge(c, NoUrl)
  \/ \E s \in Slots, c \in ChallengeIds \cup {0}, r \in FetchResults, p \in PostIds : CheckRoute(s, c, r, p)
  \/ \E s \in Slots : CheckRouteMutation(s)
  \/ \E k \in -1..MaxAgents : deleteAllButNAgents(k)
  \/ \E c \in ConfirmInputs : deleteAllAgentsAndData(c)
  \/ Tick

SpecVerify == Init /\ [][NextVerify]_vars

(* The percentage of any agent document at any time: the document and the   *)
(* time are drawn from the bounded sets, the query computes the percentage.  *)
MaxClapMs == 4

InitPct ==
  /\ now \in Times
  /\ \E c \in Times, l \in Times, m \in 0..MaxClapMs, f \in BOOLEAN :
       agents = 1 :> [NewAgent("a", Undefined, c) EXCEPT !.isClapping = f,
                                                        !.cumulativeClapMs = m,
                                                        !.lastStateChangedAt = l]
  /\ agentSeq = 1
  /\ clapEvents = <<>>
  /\ challenges = <<>>
  /\ challengeSeq = 0
  /\ inflight = [s \in Slots |-> Idle]
  /\ view = NoView

NextPct ==
  \/ \E a \in AgentIds : getAgentById(a)
  \/ Tick
  \/ ClockBack

SpecPct == InitPct /\ [][NextPct]_vars

(* The statistics of any population: up to MaxAgents agent documents and    *)
(* the time are drawn from the bounded sets, the query computes the stats.   *)
AgentDocs ==
  { [NewAgent("a", Undefined, c) EXCEPT !.isClapping = f,
                                        !.xVerified = x,
                                        !.cumulativeClapMs = m,
                                        !.lastStateChangedAt = l] :
      c \in Times, l \in Times, m \in 0..MaxClapMs, f \in BOOLEAN, x \in BOOLEAN }

InitStats ==
  /\ now \in Times
  /\ agentSeq \in 0..MaxAgents
  /\ agents \in [1..agentSeq -> AgentDocs]
  /\ clapEvents = <<>>
  /\ challenges = <<>>
  /\ challengeSeq = 0
  /\ inflight = [s \in Slots |-> Idle]
  /\ view = NoView

NextStats ==
  \/ getCurrentStats
  \/ Tick
  \/ ClockBack

SpecStats == InitStats /\ [][NextStats]_vars

(* The history of real runs: agents register and clap, the clock goes on    *)
(* and back, and the history query reconstructs the series from the log.    *)
(* A query changes no table, so the query is taken as the last operation of *)
(* a run: every reachable content of the tables is queried.                  *)
NextHistory ==
  \/ view = NoView /\ \E n \in Names : registerAgent(n, <<>>)
  \/ view = NoView /\ \E a \in AgentIds, c \in BOOLEAN : setClappingState(a, c)
  \/ view = NoView /\ Tick
  \/ view = NoView /\ ClockBack
  \/ \E r \in {"hour", "all"} : getClapRateHistory(r)

SpecHistory == Init /\ [][NextHistory]_vars

(* The history of a long log: one agent, registered at time 1, has toggled *)
(* its flag `n` times, `old` times at time 1 and the rest at the present     *)
(* time; the history query answers once, for any range.                      *)
MaxLog == 250

\* the agent after its n-th toggle, the last one at time t
Toggled(n, old, t) ==
  [NewAgent("a", Undefined, 1) EXCEPT
     !.isClapping = (n % 2 = 1),
     !.cumulativeClapMs = IF old % 2 = 1 /\ old < n THEN t - 1 ELSE 0,
     !.lastStateChangedAt = IF old < n THEN t ELSE 1,
     !.lastHeartbeatAt = IF old < n THEN t ELSE 1,
     !.updatedAt = IF old < n THEN t ELSE 1]

ToggleLog(n, old, t) ==
  [i \in 1..n |-> ClapEvent(1, NewAgent("a", Undefined, 1), i % 2 = 1, IF i <= old THEN 1 ELSE t)]

InitSample ==
  /\ now \in Times
  /\ \E n \in 0..MaxLog : \E old \in {0, n \div 2, n} :
       /\ agents = 1 :> Toggled(n, old, now)
       /\ clapEvents = ToggleLog(n, old, now)
  /\ agentSeq = 1
  /\ challenges = <<>>
  /\ challengeSeq = 0
  /\ inflight = [s \in Slots |-> Idle]
  /\ view = NoView

NextSample == view = NoView /\ \E r \in Ranges : getClapRateHistory(r)

SpecSample == InitSample /\ [][NextSample]_vars

(* The history of a log longer than the query reads: one agent, registered *)
(* at time 1, has toggled its flag about HistoryTake times.                  *)
LongLogSpread == 5

InitLongLog ==
  /\ now \in Times
  /\ \E n \in (HistoryTake - LongLogSpread)..(HistoryTake + LongLogSpread) : \E old \in {0, n} :
       /\ agents = 1 :> Toggled(n, old, now)
       /\ clapEvents = ToggleLog(n, old, now)
  /\ agentSeq = 1
  /\ challenges = <<>>
  /\ challengeSeq = 0
  /\ inflight = [s \in Slots |-> Idle]
  /\ view = NoView

NextLongLog == view = NoView /\ \E r \in {"hour", "all"} : getClapRateHistory(r)

SpecLongLog == InitLongLog /\ [][NextLongLog]_vars

(* The agent list of any population: up to MaxListed agent documents are   *)
(* drawn from the bounded set, the list query answers once, for any          *)
(* arguments the route can pass.                                             *)
MaxListed == 3

ListDocs ==
  { [NewAgent("a", Undefined, c) EXCEPT !.xVerified = x, !.cumulativeClapMs = m] :
      c \in Times, x \in BOOLEAN, m \in 0..1 }

PageInputs == {Absent, NaN, Num(-1), Num(1), Num(2), Num(3)}
PageSizeInputs == {Absent, NaN, Num(0), Num(1), Num(2), Num(101)}

InitList ==
  /\ now = MaxTime
  /\ agentSeq \in 0..MaxListed
  /\ agents \in [1..agentSeq -> ListDocs]
  /\ clapEvents = <<>>
  /\ challenges = <<>>
  /\ challengeSeq = 0
  /\ inflight = [s \in Slots |-> Idle]
  /\ view = NoView

NextList == view = NoView /\ \E s \in SortInputs, p \in PageInputs, z \in PageSizeInputs, v \in BOOLEAN : listAgents(s, p, z, v)

SpecList == InitList /\ [][NextList]_vars

(* All three tables together: every mutation called directly, the bulk     *)
(* deletes, and a clock that goes on.                                        *)
NextData ==
  \/ \E n \in Names : registerAgent(n, <<>>)
  \/ \E a \in AgentIds, c \in BOOLEAN : setClappingState(a, c)
  \/ \E a \in AgentIds, c \in ClapInputs : heartbeat(a, c)
  \/ \E a \in AgentIds, t \in Texts, e \in ExpiryInputs : createXVerificationChallenge(a, <<"@", "J">>, t, e)
  \/ \E c \in ChallengeIds : completeXVerificationChallenge(c, NoUrl)
  \/ \E k \in -1..MaxAgents : deleteAllButNAgents(k)
  \/ \E c \in ConfirmInputs : deleteAllAgentsAndData(c)
  \/ Tick

SpecData == Init /\ [][NextData]_vars

(* Concurrent requests to the clap and heartbeat routes: each is in flight   *)
(* between its resolveAgentId query and its mutation.                        *)
NextRoutes ==
  \/ \E n \in Names : registerAgent(n, <<>>)
  \/ \E s \in Slots, a \in AgentIds \cup {NoAgent}, c \in ClapInputs : ClapRoute(s, a, c)
  \/ \E s \in Slots : ClapRouteMutation(s)
  \/ \E s \in Slots, a \in AgentIds \cup {NoAgent}, c \in ClapInputs : HeartbeatRoute(s, a, c)
  \/ \E s \in Slots : HeartbeatRouteMutation(s)
  \/ deleteAllAgentsAndData(ConfirmWipe)
  \/ Tick

SpecRoutes == Init /\ [][NextRoutes]_vars

(* The start route: agents register, start requests draw their code from    *)
(* the outcomes of randomChallengeCode, and a clock goes on.                 *)
MaxCodes == 2

\* Math.random().toString(36).slice(2, 6).toUpperCase(): one of the strings
\* the generator can give; nothing compares it with the codes already issued
randomChallengeCode == 1..MaxCodes

NextStart ==
  \/ \E n \in Names : registerAgent(n, <<>>)
  \/ \E s \in Slots, a \in AgentIds \cup {NoAgent}, raw \in {<<>>, <<"@", "J">>, <<"@", "@", "j">>}, code \in randomChallengeCode : StartRoute(s, a, raw, code)
  \/ \E s \in Slots : StartRouteMutation(s)
  \/ Tick

SpecStart == Init /\ [][NextStart]_vars

----------------------------------------------------------------------------
(* Properties of the clap side. *)
AgentEvents(a) == SelectSeq(clapEvents, LAMBDA e : e.agentId = a)

TypeOf(flag) == IF flag THEN "started" ELSE "stopped"

\* C5: for every agent, cumulativeClapMs never decreases; it changes only in a
\* step that moves the flag from clapping to not clapping, and then it grows
\* by max(0, now - lastStateChangedAt); every other step leaves it as it is,
\* whatever the clock reads.
C5_CumulativeGrowsOnlyOnStop ==
  [][\A a \in DOMAIN agents \cap DOMAIN agents' :
       LET old == agents[a]
           new == agents'[a]
           stops == old.isClapping /\ ~new.isClapping
           span == IF now > old.lastStateChangedAt THEN now - old.lastStateChangedAt ELSE 0
       IN /\ new.cumulativeClapMs >= old.cumulativeClapMs
          /\ stops => new.cumulativeClapMs = old.cumulativeClapMs + span
          /\ ~stops => new.cumulativeClapMs = old.cumulativeClapMs]_vars

\* an agent has stopped clapping and the interval was folded into its total
C5_Witness ==
  \E a \in DOMAIN agents :
    /\ ~agents[a].isClapping
    /\ agents[a].cumulativeClapMs > 0
    /\ AgentEvents(a) # <<>>
    /\ AgentEvents(a)[Len(AgentEvents(a))].type = "stopped"

\* what C6 asks of the outcome o of a clap-state or heartbeat call for agent a
EventIffChanged(a, o) ==
  LET n == Len(clapEvents)
      flipped == a \in DOMAIN agents /\ o.agents[a].isClapping # agents[a].isClapping
  IN /\ o.reply.changed <=> flipped
     /\ ~o.reply.changed => o.clapEvents = clapEvents
     /\ o.reply.changed =>
          /\ Len(o.clapEvents) = n + 1
          /\ SubSeq(o.clapEvents, 1, n) = clapEvents
          /\ o.clapEvents[n + 1].agentId = a
          /\ o.clapEvents[n + 1].type = TypeOf(o.agents[a].isClapping)
          /\ o.clapEvents[n + 1].createdAt = o.agents[a].lastStateChangedAt

\* C6: in every reachable state, a clap-state or heartbeat call returns
\* changed = true iff it flips the stored flag, and it appends one event
\* exactly then: 'started' for true, 'stopped' for false, stamped with the
\* lastStateChangedAt the call writes.
C6_EventExactlyOnChange ==
  /\ \A a \in AgentIds, c \in BOOLEAN : EventIffChanged(a, setClappingStateOut(a, c))
  /\ \A a \in AgentIds, c \in ClapInputs : EventIffChanged(a, heartbeatOut(a, c))

\* a call has flipped a flag and its event is the last of the log
C6_Witness ==
  /\ clapEvents # <<>>
  /\ LET e == clapEvents[Len(clapEvents)]
     IN /\ e.agentId \in DOMAIN agents
        /\ e.type = TypeOf(agents[e.agentId].isClapping)
        /\ e.createdAt = agents[e.agentId].lastStateChangedAt
        /\ e.type = "stopped"

\* what C7 asks of the outcome o of a no-op write for agent a
OnlyHeartbeatStamped(a, o) ==
  /\ o.agents = [agents EXCEPT ![a].lastHeartbeatAt = now, ![a].updatedAt = now]
  /\ o.clapEvents = clapEvents
  /\ o.challenges = challenges
  /\ o.reply = Ok(FALSE)

\* C7: in every reachable state, a write that carries the value the agent
\* already has, or a heartbeat without a boolean, changes only lastHeartbeatAt
\* and updatedAt of that agent, appends no event and returns changed = false.
C7_NoOpWrite ==
  \A a \in DOMAIN agents :
    /\ OnlyHeartbeatStamped(a, setClappingStateOut(a, agents[a].isClapping))
    /\ \A c \in ClapInputs :
         (IsBoolean(c) => BoolOf(c) = agents[a].isClapping)
           => OnlyHeartbeatStamped(a, heartbeatOut(a, c))

\* a no-op write has run on a clapping agent: only the heartbeat stamp moved
C7_Witness ==
  \E a \in DOMAIN agents :
    /\ agents[a].isClapping
    /\ agents[a].lastHeartbeatAt > agents[a].lastStateChangedAt
    /\ agents[a].updatedAt = agents[a].lastHeartbeatAt

\* C8: in every reachable state where an agent is clapping and the clock has
\* not advanced since its flag became true, writing false and then true with
\* the clock still not advancing leaves cumulativeClapMs as it was and appends
\* exactly two events, a 'stopped' and then a 'started'.
C8_ToggleWithoutTime ==
  \A a \in DOMAIN agents :
    (agents[a].isClapping /\ now <= agents[a].lastStateChangedAt) =>
      \A t \in Times : t <= now =>
        LET off == setClappingStateOn(Db, now, a, FALSE)
            on == setClappingStateOn(off, t, a, TRUE)
        IN /\ off.reply.changed /\ on.reply.changed
           /\ on.agents[a].isClapping
           /\ on.agents[a].cumulativeClapMs = agents[a].cumulativeClapMs
           /\ Len(on.clapEvents) = Len(clapEvents) + 2
           /\ SubSeq(on.clapEvents, 1, Len(clapEvents)) = clapEvents
           /\ on.clapEvents[Len(clapEvents) + 1] = ClapEvent(a, agents[a], FALSE, now)
           /\ on.clapEvents[Len(clapEvents) + 2] = ClapEvent(a, agents[a], TRUE, t)

\* an agent went true, false, true while the clock stood still or went back
C8_Witness ==
  \E a \in DOMAIN agents :
    LET ev == AgentEvents(a)
        n == Len(ev)
    IN /\ n >= 3
       /\ agents[a].isClapping
       /\ ev[n - 2].type = "started" /\ ev[n - 1].type = "stopped" /\ ev[n].type = "started"
       /\ ev[n - 1].createdAt <= ev[n - 2].createdAt
       /\ ev[n].createdAt < ev[n - 1].createdAt
       /\ agents[a].cumulativeClapMs = 0

\* the clapping intervals an event log closes: each 'stopped' event adds the
\* time since the event before it, never less than 0
RECURSIVE ClosedIntervals(_)
ClosedIntervals(ev) ==
  IF Len(ev) < 2 THEN 0
  ELSE LET n == Len(ev)
           d == ev[n].createdAt - ev[n - 1].createdAt
       IN ClosedIntervals(SubSeq(ev, 1, n - 1))
            + (IF ev[n].type = "stopped" /\ d > 0 THEN d ELSE 0)

\* the record of agent a is what its own events, replayed in log order, give
SerialReplay(a) ==
  LET ev == AgentEvents(a)
      n == Len(ev)
  IN /\ \A i \in 1..n : ev[i].type = (IF i % 2 = 1 THEN "started" ELSE "stopped")
     /\ agents[a].isClapping = (n % 2 = 1)
     /\ agents[a].cumulativeClapMs = ClosedIntervals(ev)
     /\ agents[a].lastStateChangedAt = (IF n = 0 THEN agents[a].createdAt ELSE ev[n].createdAt)

\* C9: whatever clap and heartbeat requests are in flight together and in
\* whatever order their mutations commit, every agent's record is the one a
\* serial run gives: one event per flag change, strictly alternating, each
\* closed clapping interval folded into cumulativeClapMs exactly once, and
\* the flag and lastStateChangedAt those of the latest change.
C9_ConcurrentCallsSerialize == \A a \in DOMAIN agents : SerialReplay(a)

\* a clap request and a heartbeat request that both stop the same clapping
\* agent are in flight together, with an open interval to fold
C9_Witness ==
  \E s1, s2 \in Slots :
    /\ inflight[s1].pc = "clap" /\ inflight[s2].pc = "heartbeat"
    /\ inflight[s1].agentId = inflight[s2].agentId
    /\ inflight[s1].agentId \in DOMAIN agents
    /\ inflight[s1].clapping = "false" /\ inflight[s2].clapping = "false"
    /\ agents[inflight[s1].agentId].isClapping
    /\ now > agents[inflight[s1].agentId].lastStateChangedAt

\* C10: whenever getAgentById has computed the percentage of an agent at a
\* time at or after the agent's createdAt, the percentage is a number (its
\* divisor is not 0) and lies between 0 and 100.
C10_PercentageInRange ==
  (view.query = "getAgentById" /\ view.found /\ view.at >= view.createdAt) =>
    /\ view.clapPct.den >= 1
    /\ view.clapPct.num >= 0
    /\ view.clapPct.num <= 100 * view.clapPct.den

\* the percentage was computed at the very time the agent was created, for an
\* agent whose clap time exceeds the floored elapsed time: it was clamped to 100
C10_Witness ==
  /\ view.query = "getAgentById" /\ view.found
  /\ view.at = view.createdAt
  /\ agents[view.id].cumulativeClapMs > 1
  /\ view.clapPct = Frac(100, 1)

----------------------------------------------------------------------------
(* Properties of the verification side. *)
Unchanged(o) == o.agents = agents /\ o.clapEvents = clapEvents /\ o.challenges = challenges

\* C1: in every reachable state no two agents are verified with the same
\* handle.
C1_OneVerifiedAgentPerHandle ==
  \A a, b \in DOMAIN agents :
    (agents[a].xVerified /\ agents[b].xVerified /\ agents[a].xHandle = agents[b].xHandle)
      => a = b

\* one agent is verified with a handle for which another agent holds an open
\* challenge
C1_Witness ==
  \E a, b \in DOMAIN agents :
    /\ a # b
    /\ agents[a].xVerified /\ ~agents[b].xVerified
    /\ agents[b].xHandle = agents[a].xHandle
    /\ \E c \in DOMAIN challenges :
         /\ challenges[c].agentId = b
         /\ challenges[c].xHandle = agents[a].xHandle
         /\ challenges[c].completedAt = 0

\* the check requests that can be waiting for their mutation on challenge c
CheckRequestsFor(c) ==
  {[pc |-> "complete", challengeId |-> c, matchedPostUrl |-> Url(challenges[c].xHandle, p)] : p \in PostIds}

\* what C2 asks of every attempt in the current state
C2_Attempts ==
  \A c \in DOMAIN challenges :
    /\ challenges[c].completedAt # 0 =>
         /\ \A r \in FetchResults : CheckRouteReply(c, r) = Reply(400, ErrCompleted, FALSE)
         /\ \A req \in CheckRequestsFor(c) :
              /\ CheckRouteMutationReply(req) = Reply(400, ErrCompleted, FALSE)
              /\ Unchanged(CheckRouteMutationOut(req))
         /\ completeXVerificationChallengeOut(c, NoUrl) = Fail(Thrown(ErrCompleted))
    /\ (challenges[c].completedAt = 0 /\ now > challenges[c].expiresAt) =>
         /\ \A r \in FetchResults : CheckRouteReply(c, r) = Reply(400, ErrExpired, FALSE)
         /\ \A req \in CheckRequestsFor(c) :
              /\ CheckRouteMutationReply(req) = Reply(400, ErrExpired, FALSE)
              /\ Unchanged(CheckRouteMutationOut(req))
         /\ completeXVerificationChallengeOut(c, NoUrl) = Fail(Thrown(ErrExpired))
    /\ challenges[c].completedAt # 0 => challenges[c].completedAt <= challenges[c].expiresAt

\* what C2 asks of every step
C2_Step ==
  \A c \in DOMAIN challenges \cap DOMAIN challenges' :
    /\ challenges[c].completedAt # 0 => challenges'[c] = challenges[c]
    /\ (challenges[c].completedAt = 0 /\ challenges'[c].completedAt # 0) =>
         /\ challenges'[c].completedAt = now
         /\ now <= challenges[c].expiresAt
    /\ (challenges[c].completedAt = 0 /\ now > challenges[c].expiresAt) =>
         /\ challenges'[c].completedAt = 0
         /\ now' > challenges'[c].expiresAt

Rival(a, b, h) ==
  /\ a \in DOMAIN agents /\ b \in DOMAIN agents /\ a # b
  /\ agents[a].xVerified /\ agents[a].xHandle = h

\* the handle a raw handle stands for: surrounding blanks and one leading '@'
\* dropped, letters in lower case
HandleOf(raw) ==
  CASE raw = <<"j">> -> <<"j">>
    [] raw = <<"@", "J">> -> <<"j">>
    [] raw = <<" ", "p">> -> <<"p">>
    [] raw = <<"@", "@", "j">> -> <<"@", "j">>

ConflictHandles == {HandleOf(raw) : raw \in RawHandles}

\* C3 as stated: every attempt of b to start or to complete a challenge for
\* the handle of a verified agent a fails with the conflict error and changes
\* nothing.
C3_AlwaysConflictError ==
  \A a, b \in AgentIds, h \in ConflictHandles :
    Rival(a, b, h) =>
      /\ \A raw \in RawHandles, t \in Texts, e \in ExpiryInputs :
           HandleOf(raw) = h =>
             createXVerificationChallengeOut(b, raw, t, e) = Fail(Thrown(ErrConflict))
      /\ \A c \in DOMAIN challenges :
           (challenges[c].agentId = b /\ challenges[c].xHandle = h) =>
             completeXVerificationChallengeOut(c, NoUrl) = Fail(Thrown(ErrConflict))

\* C3, amended: every such attempt fails and changes nothing.  A start that
\* reaches the mutation fails with the conflict error (the route answers 400
\* 'Invalid X handle format' before it for a handle that is no X handle); a
\* completion fails with the conflict error when the challenge is neither
\* completed nor expired, and with the error of that earlier check otherwise.
C3_RivalAttemptFails ==
  \A a, b \in AgentIds, h \in ConflictHandles :
    Rival(a, b, h) =>
      /\ \A raw \in RawHandles, t \in Texts, e \in ExpiryInputs, code \in Codes :
           HandleOf(raw) = h =>
             /\ createXVerificationChallengeOut(b, raw, t, e) = Fail(Thrown(ErrConflict))
             /\ IF h \in {<<"j">>, <<"p">>}
                  THEN /\ StartRouteReply(b, raw) = Pending
                       /\ StartRouteMutationReply(StartRequest(b, raw, code)) = Reply(400, ErrConflict, FALSE)
                       /\ Unchanged(StartRouteMutationOut(StartRequest(b, raw, code)))
                  ELSE StartRouteReply(b, raw) = Reply(400, "Invalid X handle format", FALSE)
      /\ \A c \in DOMAIN challenges :
           (challenges[c].agentId = b /\ challenges[c].xHandle = h) =>
             LET o == completeXVerificationChallengeOut(c, NoUrl)
                 error == IF challenges[c].completedAt # 0 THEN ErrCompleted
                          ELSE IF now > challenges[c].expiresAt THEN ErrExpired
                          ELSE ErrConflict
             IN /\ o = Fail(Thrown(error))
                /\ \A req \in CheckRequestsFor(c) :
                     /\ CheckRouteMutationReply(req) = Reply(400, error, FALSE)
                     /\ Unchanged(CheckRouteMutationOut(req))

\* agent a is verified with a handle, another agent b holds an open,
\* unexpired challenge for it, and b's check of it is waiting for its mutation
C3_Witness ==
  \E a, b \in AgentIds, c \in DOMAIN challenges, s \in Slots :
    /\ Rival(a, b, challenges[c].xHandle)
    /\ challenges[c].agentId = b
    /\ challenges[c].completedAt = 0 /\ now <= challenges[c].expiresAt
    /\ inflight[s].pc = "complete" /\ inflight[s].challengeId = c

\* C4: a challenge is stamped completed only by the mutation of a check
\* request, which is in flight only after the lookup at X returned a post by
\* the challenge's handle that contains the challenge text.
C4_CompletedOnlyAfterMatch ==
  [][\A c \in DOMAIN challenges \cap DOMAIN challenges' :
       (challenges[c].completedAt = 0 /\ challenges'[c].completedAt # 0) =>
         \E s \in Slots :
           /\ inflight[s].pc = "complete"
           /\ inflight[s].challengeId = c
           /\ inflight'[s] = Idle
           /\ challenges'[c].matchedPostUrl = inflight[s].matchedPostUrl]_vars

----------------------------------------------------------------------------
(* Properties of the statistics and history queries. *)
\* two quotients are the same number
SameNumber(a, b) == a.den # 0 /\ b.den # 0 /\ a.num * b.den = b.num * a.den

\* sum_i(cumulativeClapMs_i + liveMs_i) and sum_i(max(1, t - createdAt_i)) of
\* a cohort
PooledClapMs(S, t) ==
  Sum([a \in S |-> agents[a].cumulativeClapMs
                     + (IF agents[a].isClapping /\ t > agents[a].lastStateChangedAt
                          THEN t - agents[a].lastStateChangedAt ELSE 0)], S)
PooledElapsedMs(S, t) ==
  Sum([a \in S |-> IF t - agents[a].createdAt > 1 THEN t - agents[a].createdAt ELSE 1], S)

\* clamp to [0, 100] of clap / elapsed * 100; 0 for the empty cohort
PooledPct(S, t) ==
  IF S = {} THEN Frac(0, 1)
  ELSE IF PooledClapMs(S, t) > PooledElapsedMs(S, t) THEN Frac(100, 1)
  ELSE Frac(PooledClapMs(S, t) * 100, PooledElapsedMs(S, t))

\* C11: whenever the stats query has answered, each of its three lifetime
\* percentages is the pooled percentage of its cohort (overall, verified,
\* unverified): the clamped quotient of the summed clap times and the summed
\* elapsed times, and 0 for an empty cohort.
C11_LifetimePctIsPooled ==
  view.query = "getCurrentStats" =>
    /\ SameNumber(view.lifetimeClappingPctOverall, PooledPct(DOMAIN agents, view.at))
    /\ SameNumber(view.lifetimeClappingPctVerified,
                  PooledPct({a \in DOMAIN agents : agents[a].xVerified}, view.at))
    /\ SameNumber(view.lifetimeClappingPctUnverified,
                  PooledPct({a \in DOMAIN agents : ~agents[a].xVerified}, view.at))

\* the stats were computed for two unverified agents whose own percentages
\* are 100 and 0 over different elapsed times, so that the pooled percentage
\* is not their mean; the verified cohort is empty
C11_Witness ==
  /\ view.query = "getCurrentStats"
  /\ view.totalAgentsVerified = 0
  /\ \E a, b \in DOMAIN agents :
       /\ SameNumber(computeAgentPct(agents[a], view.at), Frac(100, 1))
       /\ SameNumber(computeAgentPct(agents[b], view.at), Frac(0, 1))
       /\ Elapsed(agents[a], view.at) # Elapsed(agents[b], view.at)
  /\ ~SameNumber(view.lifetimeClappingPctOverall, Frac(50, 1))
  /\ SameNumber(view.lifetimeClappingPctVerified, Frac(0, 1))

\* event j of the log is newer than event i: a later createdAt, or the same
\* createdAt and inserted later
Newer(i, j) ==
  \/ clapEvents[j].createdAt > clapEvents[i].createdAt
  \/ clapEvents[j].createdAt = clapEvents[i].createdAt /\ j > i

\* the events of the window of a range: among the HistoryTake newest events,
\* those not older than the lookback
WindowEvents(range) ==
  {i \in DOMAIN clapEvents :
     /\ clapEvents[i].createdAt >= now - Window(range)
     /\ Cardinality({j \in DOMAIN clapEvents : Newer(i, j)}) < HistoryTake}

\* the k-th newest event of a set w of events
KthNewest(w, k) == CHOOSE i \in w : Cardinality({j \in w : Newer(i, j)}) = k - 1

ClappingCount == Cardinality({a \in DOMAIN agents : agents[a].isClapping})
TotalAgents == Cardinality(DOMAIN agents)
ClampCount(x) == IF x < 0 THEN 0 ELSE IF x > TotalAgents THEN TotalAgents ELSE x

\* pts is the reconstruction from the anchor over the events w
ReconstructedFrom(pts, w) ==
  LET m == Cardinality(w) IN
  /\ Len(pts) = m + 1
  /\ pts[m + 1].ts = now
  /\ pts[m + 1].clappingNow = ClappingCount
  /\ \A k \in 1..m :
       LET e == clapEvents[KthNewest(w, k)] IN
       /\ pts[m + 1 - k].ts = e.createdAt
       /\ pts[m + 1 - k].clappingNow =
            ClampCount(pts[m + 2 - k].clappingNow + (IF e.type = "started" THEN -1 ELSE 1))
  /\ \A i \in 1..(m + 1) :
       /\ pts[i].clappingNow >= 0 /\ pts[i].clappingNow <= TotalAgents
       /\ pts[i].pct.den >= 1
       /\ pts[i].pct.num >= 0 /\ pts[i].pct.num <= 100 * pts[i].pct.den
       /\ IF TotalAgents = 0 THEN pts[i].pct.num = 0
          ELSE SameNumber(pts[i].pct, Frac(pts[i].clappingNow * 100, TotalAgents))

\* C12: in every reachable state and for every range, the series of the
\* history query ends with the anchor (now, current clapping count); the
\* point before the k-th newest event of the window carries that event's
\* timestamp and the count of the point after it minus 1 for 'started', plus
\* 1 for 'stopped', clamped to [0, totalAgents]; every point has a count in
\* [0, totalAgents] and a percentage in [0, 100], 0 when there is no agent.
C12_ReconstructionStep ==
  \A r \in Ranges : ReconstructedFrom(getClapRateHistoryOut(r).points, WindowEvents(r))

\* the query has answered with a series in which the clamp acted: two
\* neighbouring points carry the same count although an event lies between
C12_Witness ==
  /\ view.query = "getClapRateHistory"
  /\ view.totalAgents > 0
  /\ \E i \in 1..(Len(view.points) - 1) :
       view.points[i].clappingNow = view.points[i + 1].clappingNow

\* no agent was registered inside the lookback window of a range, and the
\* clock did not go back over the log: the events carry their timestamps in
\* the order they were written, none later than now
QuietWindow(range) ==
  /\ \A a \in DOMAIN agents : agents[a].createdAt < now - Window(range)
  /\ \A i, j \in DOMAIN clapEvents : i < j => clapEvents[i].createdAt <= clapEvents[j].createdAt
  /\ \A i \in DOMAIN clapEvents : clapEvents[i].createdAt <= now

\* the number of agents that were clapping just before event i was written:
\* every agent starts not clapping, and the log holds every flag change
ClappingBefore(i) ==
  Cardinality({j \in 1..(i - 1) : clapEvents[j].type = "started"})
    - Cardinality({j \in 1..(i - 1) : clapEvents[j].type = "stopped"})

KeepsEnds(pts, full) ==
  /\ \A i \in 1..(Len(pts) - 1) : pts[i].ts <= pts[i + 1].ts
  /\ Len(pts) >= 1
  /\ pts[1] = full[1]
  /\ pts[Len(pts)] = full[Len(full)]
  /\ pts[Len(pts)].ts = view.at
  /\ pts[Len(pts)].clappingNow = ClappingCount

C15_WithinPointLimit ==
  view.query = "getClapRateHistory" =>
    Len(view.points) <= (IF view.range = "hour" THEN 120
                         ELSE IF view.range = "day" THEN 200 ELSE 260)

----------------------------------------------------------------------------
(* Properties of errors, deletes and the event log. *)
\* C16: every answer of the clap and of the heartbeat route is a success or
\* an error with status 400 or 404, at the route's checks and at its mutation
\* alike, whatever ran between the two.
C16_FailuresAre400Or404 ==
  /\ \A a \in AgentIds \cup {NoAgent}, c \in ClapInputs :
       /\ ClapRouteReply(a, c) # Pending => ClapRouteReply(a, c).status \in {400, 404}
       /\ HeartbeatRouteReply(a, c) # Pending => HeartbeatRouteReply(a, c).status \in {400, 404}
  /\ \A s \in Slots :
       /\ inflight[s].pc = "clap" => ClapRouteMutationReply(s).status \in {200, 400, 404}
       /\ inflight[s].pc = "heartbeat" => HeartbeatRouteMutationReply(s).status \in {200, 400, 404}

\* the check requests for challenge id c that can be waiting for their
\* mutation, also when the challenge is gone
AnyCheckRequestsFor(c) ==
  {[pc |-> "complete", challengeId |-> c, matchedPostUrl |-> Url(<<"j">>, p)] : p \in PostIds}

\* what C17 asks of every check in the current state
C17_Replies ==
  \A c \in ChallengeIds :
    /\ c \notin DOMAIN challenges =>
         /\ \A r \in FetchResults : CheckRouteReply(c, r) = Reply(404, "Challenge not found", FALSE)
         /\ \A req \in AnyCheckRequestsFor(c) :
              /\ CheckRouteMutationReply(req) = Reply(400, "Challenge not found", FALSE)
              /\ Unchanged(CheckRouteMutationOut(req))
    /\ (c \in DOMAIN challenges /\ challenges[c].completedAt # 0) =>
         /\ \A r \in FetchResults : CheckRouteReply(c, r) = Reply(400, "Challenge already completed", FALSE)
         /\ \A req \in AnyCheckRequestsFor(c) :
              /\ CheckRouteMutationReply(req) = Reply(400, "Challenge already completed", FALSE)
              /\ Unchanged(CheckRouteMutationOut(req))
    /\ (c \in DOMAIN challenges /\ challenges[c].completedAt = 0 /\ now > challenges[c].expiresAt) =>
         /\ \A r \in FetchResults : CheckRouteReply(c, r) = Reply(400, "Challenge expired", FALSE)
         /\ \A req \in AnyCheckRequestsFor(c) :
              /\ CheckRouteMutationReply(req) = Reply(400, "Challenge expired", FALSE)
              /\ Unchanged(CheckRouteMutationOut(req))
    /\ (c \in DOMAIN challenges /\ challenges[c].completedAt = 0 /\ now <= challenges[c].expiresAt) =>
         CheckRouteReply(c, "none") = Reply(404, "Verification post not found yet", FALSE)

\* a check whose challenge is missing, completed or expired
FailingCheck(req) ==
  \/ req.challengeId \notin DOMAIN challenges
  \/ challenges[req.challengeId].completedAt # 0
  \/ now > challenges[req.challengeId].expiresAt

\* what C17 asks of every step: a waiting check that fails is over after its
\* mutation and has changed no table; and no check waits without a matched
\* post
C17_Step ==
  \A s \in Slots :
    /\ (inflight[s].pc = "complete" /\ FailingCheck(inflight[s]) /\ inflight'[s] # inflight[s]) =>
         /\ inflight'[s] = [pc |-> "idle"]
         /\ agents' = agents /\ challenges' = challenges /\ clapEvents' = clapEvents
    /\ inflight'[s].pc = "complete" => inflight'[s].matchedPostUrl.status \in PostIds

\* C17: a check of a challenge that is missing, already completed or expired,
\* or for which no matching post is found, is answered with the error message
\* of its case, four different messages; it leaves the challenge and the
\* agent as they are, and the request is over with that answer: the server
\* does not try again.
C17_CheckFailuresReported == []C17_Replies /\ [][C17_Step]_vars

\* a check is waiting for its mutation on a challenge that a bulk delete has
\* removed in the meantime
C17_Witness ==
  \E s \in Slots :
    /\ inflight[s].pc = "complete"
    /\ inflight[s].challengeId \notin DOMAIN challenges

\* C18: each of the two bulk deletes fails and leaves the three tables
\* unchanged unless it is given the confirmation string; deleteAllButNAgents
\* takes no such string, so no call of it may delete.
C18_DeleteNeedsConfirmation ==
  /\ \A c \in ConfirmInputs :
       c # "YES_DELETE_EVERYTHING" =>
         /\ deleteAllAgentsAndDataOut(c).reply.status # 200
         /\ Unchanged(deleteAllAgentsAndDataOut(c))
  /\ \A k \in -1..MaxAgents : Unchanged(deleteAllButNAgentsOut(k))

\* every event and every challenge refers to an agent of the table
RefsExist ==
  /\ \A i \in DOMAIN clapEvents : clapEvents[i].agentId \in DOMAIN agents
  /\ \A c \in DOMAIN challenges : challenges[c].agentId \in DOMAIN agents

\* a step that removes agents removes, of the three tables, exactly these
\* agents, their events and their challenges
CascadeStep ==
  (DOMAIN agents \ DOMAIN agents' # {}) =>
    /\ agents' = [a \in DOMAIN agents \cap DOMAIN agents' |-> agents[a]]
    /\ clapEvents' = SelectSeq(clapEvents, LAMBDA e : e.agentId \in DOMAIN agents')
    /\ challenges' = [c \in {d \in DOMAIN challenges : challenges[d].agentId \in DOMAIN agents'}
                        |-> challenges[c]]

\* C19: in every reachable state every clap event and every challenge refers
\* to an agent that exists, and a step that removes agents removes all their
\* events and challenges, and nothing else, in the same step.
C19_NoOrphans == []RefsExist /\ [][CascadeStep]_vars

\* a bulk delete has removed agent 1 with its challenge and kept agent 2 with
\* its challenge and its events
C19_Witness ==
  /\ agentSeq = 2 /\ DOMAIN agents = {2}
  /\ challengeSeq = 2 /\ DOMAIN challenges = {2}
  /\ clapEvents # <<>>

\* C20: a step that removes no agent keeps every event of the log as it is
\* and where it is, and every event it appends carries a timestamp that is
\* not earlier than that of any earlier event of the same agent (the clock
\* does not go back).
C20_LogAppendOnly ==
  [][(DOMAIN agents \subseteq DOMAIN agents') =>
       /\ Len(clapEvents') >= Len(clapEvents)
       /\ \A i \in DOMAIN clapEvents : clapEvents'[i] = clapEvents[i]
       /\ \A i \in DOMAIN clapEvents' \ DOMAIN clapEvents, j \in DOMAIN clapEvents :
            clapEvents'[i].agentId = clapEvents[j].agentId =>
              clapEvents'[i].createdAt >= clapEvents[j].createdAt]_vars

\* the log holds two events of one agent written at different times, and a
\* challenge has been completed since
C20_Witness ==
  /\ \E i, j \in DOMAIN clapEvents :
       /\ i < j
       /\ clapEvents[i].agentId = clapEvents[j].agentId
       /\ clapEvents[i].createdAt < clapEvents[j].createdAt
  /\ \E c \in DOMAIN challenges : challenges[c].completedAt # 0

----------------------------------------------------------------------------
(* Properties of challenges and of the agents they verify. *)
\* C21: no two challenges of the table carry the same code in their text.
C21_CodesUnique ==
  \A c, d \in DOMAIN challenges :
    c # d => challenges[c].challengeText.code # challenges[d].challengeText.code

\* a challenge that is neither completed nor expired
Active(c) == challenges[c].completedAt = 0 /\ now <= challenges[c].expiresAt

\* C22: in every reachable state no agent has two active challenges.
C22_OneActiveChallenge ==
  \A c, d \in DOMAIN challenges :
    (Active(c) /\ Active(d) /\ challenges[c].agentId = challenges[d].agentId) => c = d

\* C23: in every reachable state every verified agent has a completed
\* challenge of its own for the handle it carries.
C23_VerifiedHandleProven ==
  \A a \in DOMAIN agents :
    agents[a].xVerified =>
      \E c \in DOMAIN challenges :
        /\ challenges[c].agentId = a
        /\ challenges[c].completedAt # 0
        /\ challenges[c].xHandle = agents[a].xHandle

\* what C24 asks of the outcome o of a completion of challenge c with URL u
CompletionEffect(c, u, o) ==
  LET a == challenges[c].agentId IN
  o.reply.status = 200 =>
    /\ DOMAIN o.challenges = DOMAIN challenges
    /\ o.challenges[c].completedAt = now /\ now # 0
    /\ o.challenges[c].matchedPostUrl = u
    /\ a \in DOMAIN agents /\ DOMAIN o.agents = DOMAIN agents
    /\ o.agents[a].xVerified = TRUE
    /\ o.agents[a].xHandle = challenges[c].xHandle
    /\ o.agents[a].isClapping = agents[a].isClapping
    /\ o.agents[a].cumulativeClapMs = agents[a].cumulativeClapMs
    /\ o.agents[a].lastStateChangedAt = agents[a].lastStateChangedAt
    /\ o.agents[a].lastHeartbeatAt = agents[a].lastHeartbeatAt
    /\ \A b \in DOMAIN agents \ {a} : o.agents[b] = agents[b]
    /\ o.clapEvents = clapEvents

\* C24: in every reachable state, a completion that succeeds, called directly
\* or by a check request, stamps the challenge with completedAt = now and the
\* matched URL and leaves its agent verified with the challenge's handle,
\* whatever handle the agent carried before; the agent's isClapping,
\* cumulativeClapMs, lastStateChangedAt and lastHeartbeatAt, every other agent
\* and the event log stay as they are.
C24_CompletionEffect ==
  \A c \in DOMAIN challenges :
    /\ CompletionEffect(c, NoUrl, completeXVerificationChallengeOut(c, NoUrl))
    /\ \A req \in CheckRequestsFor(c) :
         CompletionEffect(c, req.matchedPostUrl, CheckRouteMutationOut(req))

\* a check has completed the older challenge of an agent that had started a
\* challenge for another handle in the meantime: the agent is verified with
\* the handle of the completed challenge
C24_Witness ==
  \E c, d \in DOMAIN challenges :
    /\ c < d
    /\ challenges[c].agentId = challenges[d].agentId
    /\ challenges[c].xHandle # challenges[d].xHandle
    /\ challenges[c].completedAt # 0 /\ challenges[c].matchedPostUrl # NoUrl
    /\ challenges[d].completedAt = 0
    /\ agents[challenges[c].agentId].xVerified
    /\ agents[challenges[c].agentId].xHandle = challenges[c].xHandle

----------------------------------------------------------------------------
(* Properties of the agent record and its events. *)
\* what C25 asks of every agent in the current state
C25_Stamps ==
  \A a \in DOMAIN agents :
    LET ev == AgentEvents(a)
        n == Len(ev)
    IN /\ agents[a].lastStateChangedAt = (IF n = 0 THEN agents[a].createdAt ELSE ev[n].createdAt)
       /\ agents[a].lastStateChangedAt <= agents[a].lastHeartbeatAt
       /\ \A c \in BOOLEAN : setClappingStateOut(a, c).agents[a].lastHeartbeatAt = now
       /\ \A c \in ClapInputs : heartbeatOut(a, c).agents[a].lastHeartbeatAt = now

\* what C25 asks of every step: a new agent carries its createdAt in both
\* stamps, and lastHeartbeatAt moves only to the time of the call
C25_Step ==
  \A a \in DOMAIN agents' :
    IF a \notin DOMAIN agents
      THEN /\ agents'[a].createdAt = now
           /\ agents'[a].lastStateChangedAt = now
           /\ agents'[a].lastHeartbeatAt = now
      ELSE /\ agents'[a].createdAt = agents[a].createdAt
           /\ agents'[a].lastHeartbeatAt # agents[a].lastHeartbeatAt =>
                agents'[a].lastHeartbeatAt = now

\* C25: with a clock that does not go back, in every reachable state an
\* agent's lastStateChangedAt is the timestamp of its latest clap event, or
\* its createdAt when it has none; every clap-state and heartbeat call stamps
\* lastHeartbeatAt with the time of the call and nothing else moves it, a new
\* agent carries its createdAt there; and lastStateChangedAt <= lastHeartbeatAt.
C25_StampsFollowCalls == []C25_Stamps /\ [][C25_Step]_vars

\* an agent changed its flag after its registration and was heard of again
\* later without a change
C25_Witness ==
  \E a \in DOMAIN agents :
    /\ AgentEvents(a) # <<>>
    /\ agents[a].createdAt < agents[a].lastStateChangedAt
    /\ agents[a].lastStateChangedAt < agents[a].lastHeartbeatAt

\* the number of events of the given type written by agents of the table
EventCount(type) ==
  Cardinality({i \in DOMAIN clapEvents :
                 clapEvents[i].type = type /\ clapEvents[i].agentId \in DOMAIN agents})

\* C26: in every reachable state the events of each agent, in log order, are
\* 'started', 'stopped', 'started', ...; the agent's flag is true exactly
\* when its latest event is 'started', and false when it has no event; and
\* the number of clapping agents is the number of 'started' events minus the
\* number of 'stopped' events of the agents of the table.
C26_EventsAlternate ==
  /\ \A a \in DOMAIN agents :
       LET ev == SelectSeq(clapEvents, LAMBDA e : e.agentId = a)
           n == Len(ev)
       IN /\ \A i \in 1..n : ev[i].type = (IF i % 2 = 1 THEN "started" ELSE "stopped")
          /\ agents[a].isClapping = (n > 0 /\ ev[n].type = "started")
  /\ Cardinality({a \in DOMAIN agents : agents[a].isClapping})
       = EventCount("started") - EventCount("stopped")

\* two agents have events in the log, one has started and stopped, the other
\* is clapping
C26_Witness ==
  \E a, b \in DOMAIN agents :
    /\ agents[a].isClapping /\ ~agents[b].isClapping
    /\ Len(SelectSeq(clapEvents, LAMBDA e : e.agentId = a)) = 1
    /\ Len(SelectSeq(clapEvents, LAMBDA e : e.agentId = b)) = 2

\* the time the flag of an agent has been true up to now, from its events ev
\* in log order: the intervals from each 'started' event to the 'stopped'
\* event after it, and the interval from a last 'started' event to now
TimeClapping(ev) ==
  Sum([i \in 1..Len(ev) |->
         IF ev[i].type = "stopped" /\ i > 1 THEN ev[i].createdAt - ev[i - 1].createdAt
         ELSE IF ev[i].type = "started" /\ i = Len(ev) THEN now - ev[i].createdAt
         ELSE 0],
      1..Len(ev))

\* C27: with a clock that does not go back, in every reachable state and for
\* every agent, cumulativeClapMs plus the interval elapsing since
\* lastStateChangedAt while the flag is true is the time the flag has been
\* true since the agent was created; it lies between 0 and now - createdAt,
\* and the percentage computed from it is the quotient itself, between 0 and
\* 100, which the clamp leaves as it is.
C27_ClapTimeWithinElapsed ==
  \A a \in DOMAIN agents :
    LET live == IF agents[a].isClapping THEN now - agents[a].lastStateChangedAt ELSE 0
        clap == agents[a].cumulativeClapMs + live
        age == now - agents[a].createdAt
        elapsed == IF age > 1 THEN age ELSE 1
    IN /\ live >= 0
       /\ clap = TimeClapping(SelectSeq(clapEvents, LAMBDA e : e.agentId = a))
       /\ clap >= 0 /\ clap <= age
       /\ clap * 100 <= 100 * elapsed
       /\ computeAgentPct(agents[a], now).den = elapsed
       /\ computeAgentPct(agents[a], now).num = clap * 100

\* an agent that has clapped, stopped and started again is observed while
\* its second interval is elapsing
C27_Witness ==
  \E a \in DOMAIN agents :
    /\ agents[a].isClapping
    /\ agents[a].cumulativeClapMs > 0
    /\ now > agents[a].lastStateChangedAt
    /\ Len(SelectSeq(clapEvents, LAMBDA e : e.agentId = a)) = 3

\* what C28 asks of the outcome o of a clap-state or heartbeat call for id a
OnlyOwnClapFields(a, o) ==
  IF a \notin DOMAIN agents
    THEN /\ o.reply.status # 200
         /\ o.agents = agents /\ o.clapEvents = clapEvents /\ o.challenges = challenges
    ELSE /\ DOMAIN o.agents = DOMAIN agents
         /\ \A b \in DOMAIN agents \ {a} : o.agents[b] = agents[b]
         /\ o.agents[a].name = agents[a].name
         /\ o.agents[a].xHandle = agents[a].xHandle
         /\ o.agents[a].xVerified = agents[a].xVerified
         /\ o.agents[a].createdAt = agents[a].createdAt
         /\ Len(o.clapEvents) >= Len(clapEvents)
         /\ \A i \in DOMAIN clapEvents : o.clapEvents[i] = clapEvents[i]
         /\ o.challenges = challenges

\* C28: in every reachable state, a clap-state or heartbeat call for an agent
\* leaves every other agent, every event of the log and every challenge as
\* they are, and the agent's own name, xHandle, xVerified and createdAt; a
\* call for an id that is not in the table fails and changes nothing.
C28_ClapCallFrame ==
  \A a \in AgentIds :
    /\ \A c \in BOOLEAN : OnlyOwnClapFields(a, setClappingStateOut(a, c))
    /\ \A c \in ClapInputs : OnlyOwnClapFields(a, heartbeatOut(a, c))

\* an agent has changed its flag after another agent, which has events of its
\* own in the log, was verified by a challenge
C28_Witness ==
  \E a, b \in DOMAIN agents :
    /\ a # b
    /\ agents[b].xVerified
    /\ \E c \in DOMAIN challenges : challenges[c].agentId = b /\ challenges[c].completedAt # 0
    /\ \E i \in DOMAIN clapEvents : clapEvents[i].agentId = b
    /\ clapEvents[Len(clapEvents)].agentId = a
    /\ clapEvents[Len(clapEvents)].createdAt > agents[b].updatedAt

----------------------------------------------------------------------------
(* Properties of long logs and of the agent list. *)
\* C29: whenever the history query has answered, the series it reconstructed
\* before sampling holds, besides the anchor, one point for every event of
\* the log whose timestamp lies in [now - lookback, now].
C29_EveryWindowEventHasPoint ==
  view.query = "getClapRateHistory" =>
    Len(HistoryPoints(view.range)) - 1
      >= Cardinality({i \in DOMAIN clapEvents :
                        /\ clapEvents[i].createdAt >= view.at - Window(view.range)
                        /\ clapEvents[i].createdAt <= view.at})

\* the items of pages 1 .. k of the list, one page after the other
RECURSIVE PagesUpTo(_, _, _, _)
PagesUpTo(sort, pageSize, verifiedOnly, k) ==
  IF k = 0 THEN <<>>
  ELSE PagesUpTo(sort, pageSize, verifiedOnly, k - 1)
         \o listAgentsOut(sort, Num(k), pageSize, verifiedOnly).items

\* item x may stand before item y under the sort option
InRequestedOrder(sort, x, y) ==
  CASE sort = "newest" -> x.createdAt >= y.createdAt
    [] sort = "oldest" -> x.createdAt <= y.createdAt
    [] sort = "highest_clap" -> x.clapPct.num * y.clapPct.den >= y.clapPct.num * x.clapPct.den
    [] sort = "lowest_clap" -> x.clapPct.num * y.clapPct.den <= y.clapPct.num * x.clapPct.den

\* what C30 asks of an answer of the list query
PagesAsClaimed ==
  LET passing == {a \in DOMAIN agents : view.verifiedOnly => agents[a].xVerified}
      total == Cardinality(passing)
  IN /\ ~view.page.nan /\ view.page.val >= 1
     /\ ~view.pageSize.nan /\ view.pageSize.val >= 1 /\ view.pageSize.val <= 100
     /\ view.total = total
     /\ ~view.totalPages.nan
     /\ view.totalPages.val = (IF total = 0 THEN 1 ELSE (total + view.pageSize.val - 1) \div view.pageSize.val)
     /\ LET all == PagesUpTo(view.sort, view.pageSize, view.verifiedOnly, view.totalPages.val)
        IN /\ Len(all) = total
           /\ \A a \in passing : Cardinality({i \in 1..Len(all) : all[i].id = a}) = 1
           /\ \A i, j \in 1..Len(all) : i < j => InRequestedOrder(view.sort, all[i], all[j])
           /\ view.items = SubSeq(all, (view.page.val - 1) * view.pageSize.val + 1,
                                  IF view.page.val * view.pageSize.val < total
                                    THEN view.page.val * view.pageSize.val ELSE total)
     /\ view.page.val > view.totalPages.val => view.items = <<>>

\* C30: whenever the list query has answered, its page is a number not below
\* 1, its pageSize a number in [1, 100], totalPages = max(1, ceil(total /
\* pageSize)); pages 1 .. totalPages hold every agent that passes the filter
\* exactly once, in the requested order, the answer holds its own page of
\* them, and a page beyond totalPages is empty.
C30_ListPages == view.query = "listAgents" => PagesAsClaimed

====
